---- MODULE Spec2Model ----
(***************************************************************************)
(* The alignment engine of the repository: NeedlemanWunsch (global) and    *)
(* SmithWaterman (local), their table construction, the fill recurrence,   *)
(* the location of the local start cell and the recursive traceback        *)
(* NW_traceBack / SW_traceBack, modelled with an explicit call stack.      *)
(* Strings are sequences of one-character strings; Python's 0-based        *)
(* index k of a string or list is position k+1 of the TLA+ sequence, and   *)
(* the table is a function on 0..m x 0..n.                                 *)
(***************************************************************************)
EXTENDS Integers, Sequences, FiniteSets, TLC

VARIABLES variant, X, Y, gap, match, mismatch, table, cell, max_pos, max_val, start, stack, results, pc

VARIABLES n_tables, primes, tables, added

inputs == <<variant, X, Y, gap, match, mismatch>>

\* The BloomFilter object's attributes, and the items add was called with.
bloom == <<n_tables, primes, tables, added>>

vars == <<inputs, table, cell, max_pos, max_val, start, stack, results, pc, bloom>>

(* --------------------------- program constants ------------------------ *)

DEFAULT_GAP == -6

DEFAULT_MATCH == 5

DEFAULT_MISMATCH == -2

GapMarker == "-"

Sentinel == "*"

(* ------------------------------ bounds -------------------------------- *)

MaxLen == 3

Alphabet == {"A", "C"}

Gaps == {DEFAULT_GAP, -1, 0, 1}

Matches == {DEFAULT_MATCH, 1, 0}

Mismatches == {DEFAULT_MISMATCH, 0}

(* ------------------------------ strings ------------------------------- *)

SeqsUpTo(S, n) == UNION {[1..k -> S] : k \in 0..n}

\* X = '*' + X
WithSentinel(s) == <<Sentinel>> \o s

\* s[::-1]
Reverse(s) == [k \in 1..Len(s) |-> s[Len(s) + 1 - k]]

\* Python's list index: a negative index counts from the end of the list.
PyIndex(k, len) == IF k < 0 THEN k + len ELSE k

\* table[i][j] as Python evaluates it on a list of lists.
Cell(t, i, j) ==
    LET rows == Cardinality(DOMAIN t)
        cols == Cardinality(DOMAIN t[0])
    IN  t[PyIndex(i, rows)][PyIndex(j, cols)]

(* ------------------------------ tables -------------------------------- *)

NW_makeTable(x, y, g) ==
    [i \in 0..Len(x) |-> [j \in 0..Len(y) |->
        IF i = 0 THEN j * g ELSE IF j = 0 THEN i * g ELSE 0]]

SW_makeTable(x, y) ==
    [i \in 0..Len(x) |-> [j \in 0..Len(y) |-> 0]]

\* score with its two results exchanged.
score_Exchanged(a, b, mt, mm) == IF a = b THEN mm ELSE mt

\* score = lambda a, b: match if a == b else mismatch
score(a, b, mt, mm) == IF a = b THEN mt ELSE mm

\* max(a, b, c)
Max3(a, b, c) ==
    IF a >= b /\ a >= c THEN a ELSE IF b >= c THEN b ELSE c

\* FillCell with the gap penalty left out of the move from the left.
FillCell_NoLeftGap(t, sx, sy, i, j, g, mt, mm) ==
    LET a == t[i-1][j-1] + score(sx[i+1], sy[j+1], mt, mm)
        b == t[i-1][j] + g
        c == t[i][j-1]
    IN  [t EXCEPT ![i][j] = Max3(a, b, c)]

\* FillCell with the cell value kept from falling below zero.
FillCell_Clamped(t, sx, sy, i, j, g, mt, mm) ==
    LET a == t[i-1][j-1] + score(sx[i+1], sy[j+1], mt, mm)
        b == t[i-1][j] + g
        c == t[i][j-1] + g
    IN  [t EXCEPT ![i][j] = Max3(Max3(a, b, c), 0, 0)]

\* The body of the fill loop for one cell; sx, sy carry the sentinel.
FillCell(t, sx, sy, i, j, g, mt, mm) ==
    LET a == t[i-1][j-1] + score(sx[i+1], sy[j+1], mt, mm)
        b == t[i-1][j] + g
        c == t[i][j-1] + g
    IN  [t EXCEPT ![i][j] = Max3(a, b, c)]

\* MaxStep that also moves to a cell equal to the highest score so far.
MaxStep_Last(t, i, j, pos, val) ==
    IF t[i][j] >= val THEN [pos |-> <<i, j>>, val |-> t[i][j]]
    ELSE [pos |-> pos, val |-> val]

\* The highest-scoring position so far after looking at cell (i, j).
MaxStep(t, i, j, pos, val) ==
    IF t[i][j] > val THEN [pos |-> <<i, j>>, val |-> t[i][j]]
    ELSE [pos |-> pos, val |-> val]

(* ------------------------------ engine -------------------------------- *)
(* pc is the position in NeedlemanWunsch / SmithWaterman: "call" before    *)
(* the call, "fill" in the fill loops, "scan" in the loops that look for   *)
(* the highest-scoring position, "trace" in the traceback, then "returned" *)
(* or "raised". cell counts the interior cells the running loops have done,   *)
(* in row-major order: cell c is (1 + c \div n, 1 + c % n).                *)

NumCells == Len(X) * Len(Y)

LoopI == 1 + (cell \div Len(Y))

LoopJ == 1 + (cell % Len(Y))

SX == WithSentinel(X)

SY == WithSentinel(Y)

Frame(i, j, a1, a2) == [i |-> i, j |-> j, a1 |-> a1, a2 |-> a2, pc |-> 0]

NeedlemanWunsch ==
    /\ pc = "call"
    /\ variant = "NW"
    /\ table' = NW_makeTable(X, Y, gap)
    /\ cell' = 0
    /\ pc' = "fill"
    /\ UNCHANGED <<bloom, inputs, max_pos, max_val, start, stack, results>>

SmithWaterman ==
    /\ pc = "call"
    /\ variant = "SW"
    /\ table' = SW_makeTable(X, Y)
    /\ cell' = 0
    /\ pc' = "fill"
    /\ UNCHANGED <<bloom, inputs, max_pos, max_val, start, stack, results>>

\* One iteration of the fill loops.
Fill ==
    /\ pc = "fill"
    /\ cell < NumCells
    /\ table' = FillCell(table, SX, SY, LoopI, LoopJ, gap, match, mismatch)
    /\ cell' = cell + 1
    /\ UNCHANGED <<bloom, inputs, max_pos, max_val, start, stack, results, pc>>

\* The traceback started at the last cell of the table.
NW_StartCell_Corner(sx, sy) == <<Len(sx) - 1, Len(sy) - 1>>

\* NeedlemanWunsch starts the traceback at (len(X)-2, len(Y)-2), the
\* lengths being those of the sentinel-prefixed strings.
NW_StartCell(sx, sy) == <<Len(sx) - 2, Len(sy) - 2>>

NW_BeginTrace ==
    /\ pc = "fill"
    /\ variant = "NW"
    /\ cell = NumCells
    /\ LET s == NW_StartCell(SX, SY)
       IN  /\ start' = s
           /\ stack' = <<Frame(s[1], s[2], <<>>, <<>>)>>
    /\ results' = <<>>
    /\ pc' = "trace"
    /\ UNCHANGED <<bloom, inputs, table, cell, max_pos, max_val>>

\* max_pos = (0,0); max_val = 0
SW_BeginScan ==
    /\ pc = "fill"
    /\ variant = "SW"
    /\ cell = NumCells
    /\ max_pos' = <<0, 0>>
    /\ max_val' = 0
    /\ cell' = 0
    /\ pc' = "scan"
    /\ UNCHANGED <<bloom, inputs, table, start, stack, results>>

\* One iteration of the loops that look for the highest-scoring position.
Scan ==
    /\ pc = "scan"
    /\ cell < NumCells
    /\ LET mx == MaxStep(table, LoopI, LoopJ, max_pos, max_val)
       IN  /\ max_pos' = mx.pos
           /\ max_val' = mx.val
    /\ cell' = cell + 1
    /\ UNCHANGED <<bloom, inputs, table, start, stack, results, pc>>

SW_BeginTrace ==
    /\ pc = "scan"
    /\ cell = NumCells
    /\ start' = max_pos
    /\ stack' = <<Frame(max_pos[1], max_pos[2], <<>>, <<>>)>>
    /\ results' = <<>>
    /\ pc' = "trace"
    /\ UNCHANGED <<bloom, inputs, table, cell, max_pos, max_val>>

(* ----------------------------- traceback ------------------------------ *)
(* A frame's pc is the next statement of NW_traceBack / SW_traceBack to    *)
(* look at: 0 the bounds check, 1 and 2 the two boundary calls of          *)
(* NW_traceBack, 3 the terminal append, 4..7 the four calls of the else    *)
(* branch, 8 the end of the function.                                      *)

Top == stack[Len(stack)]

OutOfBounds(f) == f.i < 0 \/ f.j < 0

\* if i == 0 and j == 0 (global); if i == 0 or j == 0 (local)
Terminal(f) ==
    IF variant = "NW" THEN f.i = 0 /\ f.j = 0 ELSE f.i = 0 \/ f.j = 0

\* Taken with the move up taken whatever the difference to the cell above.
Taken_AlwaysUp(f, k) ==
    LET a == Cell(table, f.i, f.j)
        c == Cell(table, f.i, f.j - 1)
        d == Cell(table, f.i - 1, f.j - 1)
    IN  CASE k = 1 -> variant = "NW" /\ f.i = 0 /\ f.j # 0
          [] k = 2 -> variant = "NW" /\ f.j = 0 /\ f.i # 0
          [] k = 3 -> Terminal(f)
          [] k = 4 -> ~Terminal(f) /\ a - d = match /\ SX[f.i + 1] = SY[f.j + 1]
          [] k = 5 -> ~Terminal(f) /\ a - d = mismatch /\ SX[f.i + 1] # SY[f.j + 1]
          [] k = 6 -> ~Terminal(f)
          [] k = 7 -> ~Terminal(f) /\ a - c = gap
          [] OTHER -> TRUE

\* Whether statement k of the function is executed in frame f (f in bounds).
Taken(f, k) ==
    LET a == Cell(table, f.i, f.j)
        b == Cell(table, f.i - 1, f.j)
        c == Cell(table, f.i, f.j - 1)
        d == Cell(table, f.i - 1, f.j - 1)
    IN  CASE k = 1 -> variant = "NW" /\ f.i = 0 /\ f.j # 0
          [] k = 2 -> variant = "NW" /\ f.j = 0 /\ f.i # 0
          [] k = 3 -> Terminal(f)
          [] k = 4 -> ~Terminal(f) /\ a - d = match /\ SX[f.i + 1] = SY[f.j + 1]
          [] k = 5 -> ~Terminal(f) /\ a - d = mismatch /\ SX[f.i + 1] # SY[f.j + 1]
          [] k = 6 -> ~Terminal(f) /\ a - b = gap
          [] k = 7 -> ~Terminal(f) /\ a - c = gap
          [] OTHER -> TRUE

\* The next statement frame f executes.
NextStmt(f) ==
    IF OutOfBounds(f) THEN 0
    ELSE LET from == IF f.pc = 0 THEN 1 ELSE f.pc
             S == {k \in from..8 : Taken(f, k)}
         IN  CHOOSE k \in S : \A l \in S : k <= l

Running == pc = "trace" /\ stack # <<>>

\* The recursive call made by statement k: the caller resumes at `resume`.
Call(resume, i, j, c1, c2) ==
    /\ stack' = Append([stack EXCEPT ![Len(stack)].pc = resume],
                       Frame(i, j, Append(Top.a1, c1), Append(Top.a2, c2)))
    /\ UNCHANGED <<bloom, inputs, table, cell, max_pos, max_val, start, results, pc>>

\* raise IndexError('Tracback went out of bounds')
TB_OutOfBounds ==
    /\ Running
    /\ NextStmt(Top) = 0
    /\ pc' = "raised"
    /\ stack' = <<>>
    /\ UNCHANGED <<bloom, inputs, table, cell, max_pos, max_val, start, results>>

TB_ForcedGapX ==
    /\ Running
    /\ NextStmt(Top) = 1
    /\ Call(2, Top.i, Top.j - 1, GapMarker, SY[Top.j + 1])

\* TB_ForcedGapY appending Y[j] where the gap marker belongs.
TB_ForcedGapY_Symbol ==
    /\ Running
    /\ NextStmt(Top) = 2
    /\ Call(3, Top.i - 1, Top.j, SX[Top.i + 1], SY[Top.j + 1])

TB_ForcedGapY ==
    /\ Running
    /\ NextStmt(Top) = 2
    /\ Call(3, Top.i - 1, Top.j, SX[Top.i + 1], GapMarker)

TB_Emit ==
    /\ Running
    /\ NextStmt(Top) = 3
    /\ results' = Append(results, <<Reverse(Top.a1), Reverse(Top.a2)>>)
    /\ stack' = [stack EXCEPT ![Len(stack)].pc = 8]
    /\ UNCHANGED <<bloom, inputs, table, cell, max_pos, max_val, start, pc>>

TB_DiagMatch ==
    /\ Running
    /\ NextStmt(Top) = 4
    /\ Call(5, Top.i - 1, Top.j - 1, SX[Top.i + 1], SY[Top.j + 1])

TB_DiagMismatch ==
    /\ Running
    /\ NextStmt(Top) = 5
    /\ Call(6, Top.i - 1, Top.j - 1, SX[Top.i + 1], SY[Top.j + 1])

TB_Up ==
    /\ Running
    /\ NextStmt(Top) = 6
    /\ Call(7, Top.i - 1, Top.j, SX[Top.i + 1], GapMarker)

\* TB_Left calling itself on the cell it is at.
TB_Left_SameCell ==
    /\ Running
    /\ NextStmt(Top) = 7
    /\ Call(8, Top.i, Top.j, GapMarker, SY[Top.j + 1])

\* TB_Left with the two appended characters exchanged.
TB_Left_Exchanged ==
    /\ Running
    /\ NextStmt(Top) = 7
    /\ Call(8, Top.i, Top.j - 1, SY[Top.j + 1], GapMarker)

TB_Left ==
    /\ Running
    /\ NextStmt(Top) = 7
    /\ Call(8, Top.i, Top.j - 1, GapMarker, SY[Top.j + 1])

\* The end of a traceback call: back to the caller.
TB_Return ==
    /\ Running
    /\ NextStmt(Top) = 8
    /\ stack' = SubSeq(stack, 1, Len(stack) - 1)
    /\ UNCHANGED <<bloom, inputs, table, cell, max_pos, max_val, start, results, pc>>

\* return results
Return ==
    /\ pc = "trace"
    /\ stack = <<>>
    /\ pc' = "returned"
    /\ UNCHANGED <<bloom, inputs, table, cell, max_pos, max_val, start, stack, results>>

(* ---------------------------- BloomFilter ----------------------------- *)
(* The BloomFilter class of the Bloom filter notebook. An item is          *)
(* identified with its hash value. primes and tables are Python lists:     *)
(* element n of the list is position n+1 of the sequence; a table is a     *)
(* function on 0..p-1.                                                     *)

MaxBins == 12

MaxTables == 3

MaxHash == 5

Items == -1..MaxHash

\* hash(item)
Hash(item) == item

\* int(n ** 0.5)
IntSqrt(n) == CHOOSE r \in 0..n : r * r <= n /\ (r + 1) * (r + 1) > n

is_prime(n) ==
    IF n < 2 THEN FALSE
    ELSE IF n = 2 THEN TRUE
    ELSE IF n % 2 = 0 THEN FALSE
    ELSE \A i \in 3..IntSqrt(n) : (i % 2 = 1) => (n % i # 0)

\* The while loop of get_primes, from cur_num on with list ps so far.
RECURSIVE get_primes_loop(_, _, _)
get_primes_loop(cur_num, n_primes, ps) ==
    IF Len(ps) # n_primes /\ cur_num > 0
    THEN get_primes_loop(cur_num - 2, n_primes,
                         IF is_prime(cur_num) THEN Append(ps, cur_num) ELSE ps)
    ELSE ps

get_primes(from, n_primes) ==
    get_primes_loop(IF from % 2 = 0 THEN from - 1 ELSE from, n_primes, <<>>)

\* The attributes after BloomFilter(n_bins, nt).
Constructed(n_bins, nt) ==
    /\ n_tables = nt
    /\ primes = get_primes(n_bins, nt)
    /\ tables = [n \in 1..Len(get_primes(n_bins, nt)) |->
                    [idx \in 0..(get_primes(n_bins, nt)[n] - 1) |-> FALSE]]

\* No BloomFilter object exists.
NoFilter ==
    /\ n_tables = 0
    /\ primes = <<>>
    /\ tables = <<>>
    /\ added = {}

get_indices(item) == [n \in 1..Len(primes) |-> Hash(item) % primes[n]]

add(item) ==
    /\ pc = "filter"
    /\ tables' = [n \in 1..Len(tables) |->
                     [tables[n] EXCEPT ![get_indices(item)[n]] = TRUE]]
    /\ added' = added \cup {item}
    /\ UNCHANGED <<n_tables, primes>>
    /\ UNCHANGED <<inputs, table, cell, max_pos, max_val, start, stack, results, pc>>

\* item in self
Contains(item) ==
    LET hits == {n \in 1..Len(primes) : tables[n][get_indices(item)[n]] = TRUE}
    IN  Cardinality(hits) = n_tables

(* --------------------------- specifications --------------------------- *)

InitCall ==
    /\ table = <<>>
    /\ cell = 0
    /\ max_pos = <<0, 0>>
    /\ max_val = 0
    /\ start = <<0, 0>>
    /\ stack = <<>>
    /\ results = <<>>
    /\ pc = "call"
    /\ NoFilter

Init ==
    /\ variant \in {"NW", "SW"}
    /\ X \in SeqsUpTo(Alphabet, MaxLen)
    /\ Y \in SeqsUpTo(Alphabet, MaxLen)
    /\ gap \in Gaps
    /\ match \in Matches
    /\ mismatch \in Mismatches
    /\ InitCall

Next ==
    \/ NeedlemanWunsch
    \/ SmithWaterman
    \/ Fill
    \/ NW_BeginTrace
    \/ SW_BeginScan
    \/ Scan
    \/ SW_BeginTrace
    \/ TB_OutOfBounds
    \/ TB_ForcedGapX
    \/ TB_ForcedGapY
    \/ TB_Emit
    \/ TB_DiagMatch
    \/ TB_DiagMismatch
    \/ TB_Up
    \/ TB_Left
    \/ TB_Return
    \/ Return

Spec == Init /\ [][Next]_vars

\* The interpreter runs a call to its end: a step that can be taken is taken.
SpecFair == Init /\ [][Next]_vars /\ WF_vars(Next)

(* ------------------------- the concrete calls ------------------------- *)
(* The calls of the notebook's demonstration cells and the boundary calls  *)
(* with empty sequences, all with the default scores.                      *)

CallOf(v, x, y) == [variant |-> v, X |-> x, Y |-> y]

Demo1 == CallOf("NW", <<"A", "T", "T", "C", "G", "G", "C", "T">>, <<"A", "G", "T", "T", "G", "G", "G", "C", "C", "C", "G", "C", "G", "T">>)

Demo2 == CallOf("NW", <<"T", "A", "T", "A", "T", "A", "T", "A", "T", "A">>, <<"G", "C", "A", "T", "A", "A", "G", "G", "T">>)

Demo3 == CallOf("SW", <<"A", "A", "A", "T", "T", "G", "G", "G", "C", "G", "C", "C", "G", "G", "G", "T", "T", "T", "A", "A", "A">>, <<"G", "G", "C", "C", "C", "G", "G", "G", "A", "A", "A", "T", "T", "T", "A">>)

EmptyGlobal == CallOf("NW", <<>>, <<"A", "C">>)

ShortGlobal == CallOf("NW", <<"A">>, <<"A", "C">>)

EmptyLocal == CallOf("SW", <<>>, <<>>)

Scenarios == {Demo1, Demo2, Demo3, EmptyGlobal, ShortGlobal, EmptyLocal}

ThisCall == CallOf(variant, X, Y)

InitScenario ==
    /\ \E c \in Scenarios : variant = c.variant /\ X = c.X /\ Y = c.Y
    /\ gap = DEFAULT_GAP
    /\ match = DEFAULT_MATCH
    /\ mismatch = DEFAULT_MISMATCH
    /\ InitCall

SpecScenario == InitScenario /\ [][Next]_vars

(* ------------------------------ claims -------------------------------- *)

\* The fill loops are over: every cell of the table has its final value.
TableFilled == pc \in {"scan", "trace", "returned", "raised"}

Returned == pc = "returned"

Pairs == {results[r] : r \in 1..Len(results)}

Chars(s) == {s[p] : p \in 1..Len(s)}

Last(s) == s[Len(s)]

Front(s) == SubSeq(s, 1, Len(s) - 1)

\* Every global alignment of x and y, as a pair of gapped strands: the last
\* column pairs the two last symbols, or the last symbol of one with a gap.
RECURSIVE AllAlignments(_, _)
AllAlignments(x, y) ==
    IF x = <<>> /\ y = <<>> THEN {<< <<>>, <<>> >>}
    ELSE (IF x # <<>> /\ y # <<>>
          THEN {<<Append(p[1], Last(x)), Append(p[2], Last(y))>> :
                    p \in AllAlignments(Front(x), Front(y))}
          ELSE {})
         \cup
         (IF x # <<>>
          THEN {<<Append(p[1], Last(x)), Append(p[2], GapMarker)>> :
                    p \in AllAlignments(Front(x), y)}
          ELSE {})
         \cup
         (IF y # <<>>
          THEN {<<Append(p[1], GapMarker), Append(p[2], Last(y))>> :
                    p \in AllAlignments(x, Front(y))}
          ELSE {})

\* The score of an alignment, column by column.
RECURSIVE AlignmentScore(_, _, _, _, _)
AlignmentScore(a1, a2, g, mt, mm) ==
    IF a1 = <<>> \/ a2 = <<>> THEN 0
    ELSE (IF a1[1] = GapMarker \/ a2[1] = GapMarker THEN g
          ELSE IF a1[1] = a2[1] THEN mt ELSE mm)
         + AlignmentScore(Tail(a1), Tail(a2), g, mt, mm)

PairScore(p) == AlignmentScore(p[1], p[2], gap, match, mismatch)

\* s without its gap markers
Degap(s) == SelectSeq(s, LAMBDA c : c # GapMarker)

\* C1: with gap < 0, the value of table[m][n] of the filled global table is
\* the maximum, over every global alignment of X and Y, of the alignment's
\* score: some alignment scores exactly that, and none scores more.
C1_GlobalScoreIsMaximum ==
    (TableFilled /\ variant = "NW" /\ gap < 0) =>
        LET best == table[Len(X)][Len(Y)]
            all  == AllAlignments(X, Y)
        IN  /\ \E p \in all : PairScore(p) = best
            /\ \A p \in all : PairScore(p) <= best

C1_Witness ==
    /\ TableFilled
    /\ variant = "NW"
    /\ gap < 0
    /\ Len(X) = 3
    /\ Len(Y) = 2
    /\ Chars(X) = Alphabet
    /\ table[Len(X)][Len(Y)] > 0

\* C2: every pair NeedlemanWunsch returns reproduces X and Y when the gap
\* markers are removed from its strands.
C2_StrandsReproduceInputs ==
    (Returned /\ variant = "NW") =>
        \A p \in Pairs : Degap(p[1]) = X /\ Degap(p[2]) = Y

\* The alignment of x and y that pairs every symbol with a gap.
AllGapPair(x, y) ==
    << [p \in 1..Len(y) |-> GapMarker] \o x, y \o [p \in 1..Len(x) |-> GapMarker] >>

\* C3: when X or Y is empty, NeedlemanWunsch raises nothing and returns
\* exactly one pair, the all-gap alignment.
C3_EmptyInputGlobal ==
    (variant = "NW" /\ (X = <<>> \/ Y = <<>>)) =>
        /\ pc # "raised"
        /\ Returned => results = <<AllGapPair(X, Y)>>

Demo1Pair == <<<<"A", "-", "T", "T", "C", "G", "G", "C", "-", "-", "-", "-", "-">>,
               <<"A", "G", "T", "T", "G", "G", "G", "C", "C", "C", "G", "C", "G">>>>

\* C4 as stated: NeedlemanWunsch('ATTCGGCT', 'AGTTGGGCCCGCGT', -6, 5, -2)
\* returns 10 results, the pair ('A-TTCGGC-----', 'AGTTGGGCCCGCG') among
\* them, and table[8][14] is 1.
C4_Demo1_AsStated ==
    (Returned /\ ThisCall = Demo1) =>
        /\ Len(results) = 10
        /\ Demo1Pair \in Pairs
        /\ table[8][14] = 1

\* C4, amended: the same call returns 10 results, that pair among them, and
\* table[8][14] is -3.
C4_Demo1_Amended ==
    (Returned /\ ThisCall = Demo1) =>
        /\ Len(results) = 10
        /\ Demo1Pair \in Pairs
        /\ table[8][14] = -3

C4_Witness == Returned /\ ThisCall = Demo1

Demo3Pair == <<<<"G", "G", "C", "G", "C", "C", "G", "G", "G", "-", "-", "-", "T", "T", "T", "A">>,
               <<"G", "G", "C", "-", "C", "C", "G", "G", "G", "A", "A", "A", "T", "T", "T", "A">>>>

\* C5: SmithWaterman('AAATTGGGCGCCGGGTTTAAA', 'GGCCCGGGAAATTTA', -6, 5, -2)
\* returns exactly one pair, ('GGCGCCGGG---TTTA', 'GGC-CCGGGAAATTTA').
C5_Demo3_OnePair ==
    (Returned /\ ThisCall = Demo3) => results = <<Demo3Pair>>

C5_Witness == Returned /\ ThisCall = Demo3 /\ Len(results) = 1

Interior(p) == p[1] \in 1..Len(X) /\ p[2] \in 1..Len(Y)

NoPositiveCell == \A i \in 1..Len(X), j \in 1..Len(Y) : table[i][j] <= 0

EmptyPair == << <<>>, <<>> >>

\* C7: when no interior cell of the filled local table is greater than 0
\* (none exists when X or Y is empty), the traceback starts at (0,0), nothing
\* is raised, and the result is exactly one pair of empty strands, score 0.
C7_LocalNothingPositive ==
    (variant = "SW" /\ pc \in {"trace", "returned", "raised"} /\ NoPositiveCell) =>
        /\ start = <<0, 0>>
        /\ max_val = 0
        /\ table[0][0] = 0
        /\ pc # "raised"
        /\ Returned => results = <<EmptyPair>>

C7_Witness ==
    /\ Returned
    /\ variant = "SW"
    /\ NoPositiveCell
    /\ \E i \in 1..Len(X), j \in 1..Len(Y) : table[i][j] = 0
    /\ results = <<EmptyPair>>

\* C8: the score of every returned pair, computed column by column, is the
\* value of the filled table at the cell the traceback started from.
C8_PairScoreIsStartCell ==
    Returned => \A p \in Pairs : PairScore(p) = Cell(table, start[1], start[2])

C8_Witness ==
    /\ Returned
    /\ Len(results) >= 2
    /\ start = <<2, 2>>
    /\ \E p \in Pairs : GapMarker \in Chars(p[1])
    /\ \E p \in Pairs : GapMarker \notin Chars(p[1]) \cup Chars(p[2])

\* The fill loops run to their end on table t, from interior cell c on.
RECURSIVE FillTable(_, _, _, _, _, _, _)
FillTable(t, sx, sy, g, mt, mm, c) ==
    LET m == Len(sx) - 1
        n == Len(sy) - 1
    IN  IF c >= m * n THEN t
        ELSE FillTable(FillCell(t, sx, sy, 1 + (c \div n), 1 + (c % n), g, mt, mm),
                       sx, sy, g, mt, mm, c + 1)

\* The value the scan loops end with on the (m+1) x (n+1) table t.
RECURSIVE FindMax(_, _, _, _, _, _)
FindMax(t, m, n, c, pos, val) ==
    IF c >= m * n THEN val
    ELSE LET mx == MaxStep(t, 1 + (c \div n), 1 + (c % n), pos, val)
         IN  FindMax(t, m, n, c + 1, mx.pos, mx.val)

\* The filled tables of the call with the two sequences swapped.
SwappedGlobal == FillTable(NW_makeTable(Y, X, gap), SY, SX, gap, match, mismatch, 0)

SwappedLocal == FillTable(SW_makeTable(Y, X), SY, SX, gap, match, mismatch, 0)

\* C9: swapping the two sequences leaves the score unchanged: table[m][n]
\* of the global table of (X, Y) is table[n][m] of that of (Y, X), and the
\* located maximum of the local table of (X, Y) is that of (Y, X).
C9_SwapKeepsScore ==
    /\ (variant = "NW" /\ TableFilled) =>
           table[Len(X)][Len(Y)] = SwappedGlobal[Len(Y)][Len(X)]
    /\ (variant = "SW" /\ pc \in {"trace", "returned"}) =>
           max_val = FindMax(SwappedLocal, Len(Y), Len(X), 0, <<0, 0>>, 0)

C9_Witness ==
    /\ variant = "SW"
    /\ Returned
    /\ Len(X) = 3
    /\ Len(Y) = 2
    /\ max_val > 0
    /\ start # <<Len(X), Len(Y)>>

\* C10: the two strands of every returned pair have the same length, and
\* every character of the first is a symbol of X or the gap marker, every
\* character of the second a symbol of Y or the gap marker.
C10_StrandsWellFormed ==
    Returned => \A p \in Pairs :
        /\ Len(p[1]) = Len(p[2])
        /\ Chars(p[1]) \subseteq Chars(X) \cup {GapMarker}
        /\ Chars(p[2]) \subseteq Chars(Y) \cup {GapMarker}

C10_Witness ==
    /\ Returned
    /\ variant = "NW"
    /\ \E p \in Pairs : Len(p[1]) = 2 /\ p[1][1] # GapMarker /\ p[2][1] = GapMarker

\* A BloomFilter has been constructed; no alignment call is made.
InitBloom ==
    /\ \E n_bins \in 1..MaxBins, nt \in 1..MaxTables : Constructed(n_bins, nt)
    /\ added = {}
    /\ variant = "none"
    /\ X = <<>>
    /\ Y = <<>>
    /\ gap = 0
    /\ match = 0
    /\ mismatch = 0
    /\ table = <<>>
    /\ cell = 0
    /\ max_pos = <<0, 0>>
    /\ max_val = 0
    /\ start = <<0, 0>>
    /\ stack = <<>>
    /\ results = <<>>
    /\ pc = "filter"

NextBloom == \E item \in Items : add(item)

SpecBloom == InitBloom /\ [][NextBloom]_vars

\* C12: a BloomFilter has no false negatives: after any sequence of add
\* calls, every item that has been added is in the filter.
C12_NoFalseNegatives == \A item \in added : Contains(item)

\* An interior cell whose table value is 0.
ZeroInterior(f) == f.i > 0 /\ f.j > 0 /\ table[f.i][f.j] = 0

\* C11: the local traceback ends at a zero score: no call of SW_traceBack on
\* an interior cell whose value is 0 makes a further call.
C11_StopsAtZero ==
    (variant = "SW" /\ pc = "trace") =>
        \A p \in 1..(Len(stack) - 1) : ~ZeroInterior(stack[p])

\* A cell of row 0 or column 0 other than (0,0).
Boundary(f) == (f.i = 0 /\ f.j > 0) \/ (f.j = 0 /\ f.i > 0)

\* C13: no traceback call is made with i < 0 or j < 0, the out-of-bounds
\* IndexError is never raised, and no call reads the table at a negative
\* index (as the else branch does at a cell of row 0 or column 0).
C13_NeverOutOfBounds ==
    /\ pc # "raised"
    /\ \A p \in 1..Len(stack) :
          /\ ~OutOfBounds(stack[p])
          /\ ~(Boundary(stack[p]) /\ ~Terminal(stack[p]) /\ stack[p].pc >= 5)

\* C14: in the global traceback a call on a cell of row 0 or column 0 other
\* than (0,0) makes exactly one call, the forced one, so that no pair is
\* appended to the results twice.
C14_BoundaryForcedOnly ==
    (variant = "NW" /\ pc \in {"trace", "returned"}) =>
        /\ \A p \in 1..Len(stack) : Boundary(stack[p]) => stack[p].pc <= 3
        /\ Returned => Len(results) = Cardinality(Pairs)

\* (a, b) comes before (c, d) in the row-major order of the scan loops.
RowMajorBefore(a, b, c, d) == a < c \/ (a = c /\ b < d)

\* C15: when the filled local table has an interior cell greater than 0, the
\* traceback starts at an interior cell holding the maximum over the interior
\* cells, and at the first such cell in row-major order (lowest i, then
\* lowest j).
C15_StartIsFirstMaximum ==
    (variant = "SW" /\ pc \in {"trace", "returned"} /\ ~NoPositiveCell) =>
        /\ Interior(start)
        /\ table[start[1]][start[2]] > 0
        /\ \A i \in 1..Len(X), j \in 1..Len(Y) :
               /\ table[i][j] <= table[start[1]][start[2]]
               /\ table[i][j] = table[start[1]][start[2]] =>
                      (<<i, j>> = start \/ RowMajorBefore(start[1], start[2], i, j))

C15_Witness ==
    /\ variant = "SW"
    /\ pc = "trace"
    /\ table[start[1]][start[2]] > 0
    /\ \E i \in 1..Len(X), j \in 1..Len(Y) :
           /\ table[i][j] = table[start[1]][start[2]]
           /\ i > start[1]
           /\ j < start[2]

\* The three terms of the recurrence at interior cell (i, j).
Terms(i, j) ==
    { table[i-1][j-1] + (IF X[i] = Y[j] THEN match ELSE mismatch),
      table[i-1][j] + gap,
      table[i][j-1] + gap }

\* Every interior cell is the largest of its three terms, and the first row
\* and column hold what the table was made with.
RecurrenceHolds ==
    /\ \A i \in 1..Len(X), j \in 1..Len(Y) :
           /\ table[i][j] \in Terms(i, j)
           /\ \A v \in Terms(i, j) : v <= table[i][j]
    /\ \A i \in 0..Len(X) : table[i][0] = (IF variant = "NW" THEN i * gap ELSE 0)
    /\ \A j \in 0..Len(Y) : table[0][j] = (IF variant = "NW" THEN j * gap ELSE 0)

\* C16: after the fill step of either variant every interior cell is the
\* maximum of the diagonal term and the two gap terms, without clamping to
\* zero, the first row and column keep their initial values (i*gap and j*gap
\* for global, 0 for local), and no step after the fill changes the table.
C16_RecurrenceNoClamp ==
    /\ [](TableFilled => RecurrenceHolds)
    /\ [][TableFilled => table' = table]_vars

C16_Witness ==
    /\ variant = "SW"
    /\ pc = "trace"
    /\ Len(stack) >= 2
    /\ RecurrenceHolds
    /\ \E i \in 1..Len(X), j \in 1..Len(Y) : table[i][j] < 0

\* Every traceback call in progress is on a cell with a smaller i + j than
\* the call that made it.
CallsDescend ==
    \A p \in 1..(Len(stack) - 1) :
        stack[p+1].i + stack[p+1].j < stack[p].i + stack[p].j

Finished == pc \in {"returned", "raised"}

\* C17: every recursive call of NW_traceBack and SW_traceBack is on a cell
\* with a strictly smaller i + j than its caller, the recursion depth never
\* exceeds |X| + |Y| + 1, and every call of NeedlemanWunsch and SmithWaterman
\* eventually returns or raises, for all inputs and scores, gap = 0 included.
C17_EnumerationTerminates ==
    /\ [](CallsDescend /\ Len(stack) <= Len(X) + Len(Y) + 1)
    /\ <>Finished

C17_Witness ==
    /\ pc = "trace"
    /\ gap = 0
    /\ Len(stack) >= 4
    /\ Len(stack) = Len(X) + Len(Y) - 1
    /\ CallsDescend

====
